---- MODULE Spec2Model ----
(***************************************************************************)
(* The navigation history tree of src/history.rs: HistoryTreeEntry nodes   *)
(* held in Rc boxes, the HistoryTree with its root slot and its cursor,    *)
(* and the operations visit and go_up.                                     *)
(*                                                                         *)
(* An Rc box is a slot of `heap`: its value (name, parent,                 *)
(* last_visited_child, children) together with the two reference counts    *)
(* Rc keeps (strong, weak).  An Rc or Weak handle is the index of the      *)
(* slot; None (0) is Weak::new() / Option::None.  Every Rc::clone,         *)
(* Rc::downgrade, Weak::upgrade and drop of the code moves the counts as   *)
(* std::rc does, so that Rc::get_mut is decided by the counts.             *)
(***************************************************************************)
EXTENDS Integers, Sequences, FiniteSets, TLC

\* Number of Rc boxes the model allocates (the root included).
MaxNodes == 5

\* The strings handed to visit.  "/" is also the root's name.
Names == {"/", "foo", "bar"}

None == 0

VARIABLES
    heap,           \* the Rc<HistoryTreeEntry> boxes allocated so far
    root,           \* HistoryTree.root
    current_entry,  \* HistoryTree.current_entry (the Rc inside the RefCell)
    panicked,       \* a call has unwound with a panic (Option::unwrap on None)
    last            \* the last call made: its name, its argument, the cursor it started
                    \* from and the branch it took

vars == <<heap, root, current_entry, panicked, last>>

Nodes(h) == 1..Len(h)

----------------------------------------------------------------------------
\* std::rc, by its effect on the counts of a box.

RcClone(h, n) == [h EXCEPT ![n].strong = @ + 1]

RcDrop_leak(h, n) == h

\* Dropping an Rc handle.  (No count reaches 0 in this program: see StrongPositive.)
RcDrop(h, n) == [h EXCEPT ![n].strong = @ - 1]

RcDowngrade(h, n) == [h EXCEPT ![n].weak = @ + 1]

\* Weak::upgrade: None for Weak::new() or a box with no strong reference left.
WeakUpgrade(h, w) == IF w = None \/ h[w].strong = 0 THEN None ELSE w

RcGetMut_always(h, n) == TRUE

\* Rc::get_mut gives Some only to the sole handle of the box: strong = 1, weak = 0.
RcGetMut(h, n) == h[n].strong = 1 /\ h[n].weak = 0

----------------------------------------------------------------------------
\* The struct literal wrapped by Rc::new: one strong reference, no weak one.
HistoryTreeEntry(name, parent) ==
    [name |-> name, parent |-> parent, last_visited_child |-> None,
     children |-> <<>>, strong |-> 1, weak |-> 0]

init_history_tree ==
    /\ heap = << [HistoryTreeEntry("/", None) EXCEPT !.strong = 2] >>
    /\ root = 1
    /\ current_entry = 1
    /\ panicked = FALSE
    /\ last = [op |-> "init", fname |-> "", from |-> None, branch |-> "init"]

Init == init_history_tree

matching_child_never(h, e, fname) == None

matching_child_last_only(h, e, fname) ==
    LET cs == h[e].children IN
    IF cs # <<>> /\ h[cs[Len(cs)]].name = fname THEN cs[Len(cs)] ELSE None

\* children.iter().find(|child| child.name == fname): the first match, or None.
matching_child(h, e, fname) ==
    LET cs == h[e].children
        hits == {i \in 1..Len(cs) : h[cs[i]].name = fname}
    IN IF hits = {} THEN None
       ELSE cs[CHOOSE i \in hits : \A j \in hits : i <= j]

\* The existing-child branch: the cursor is replaced by a clone of the child, then
\* the entry left is asked for exclusive access to record the child on it.
visit_existing(fname, child) ==
    LET previous_entry == current_entry
        h1 == RcClone(heap, child)             \* .map(|c| c.clone())
        h2 == RcClone(h1, child)               \* current_entry.replace(Rc::clone(&child))
        some == RcGetMut(h2, previous_entry)
        h3 == IF some
              THEN [RcDowngrade(h2, child) EXCEPT ![previous_entry].last_visited_child = child]
              ELSE h2                          \* unwrap() on None: panic
        h4 == RcDrop(RcDrop(h3, previous_entry), child)   \* the locals go out of scope / unwind
    IN /\ heap' = h4
       /\ current_entry' = child
       /\ panicked' = ~some
       /\ root' = root
       /\ last' = [op |-> "visit", fname |-> fname, from |-> previous_entry,
                   branch |-> "existing"]

new_child_wrong_parent(h, e, fname) == HistoryTreeEntry(fname, h[e].parent)

new_child_wrong_name(h, e, fname) == HistoryTreeEntry(h[e].name, e)

new_child_null_parent(h, e, fname) == HistoryTreeEntry(fname, None)

\* The entry built in the new-child branch: parent is Rc::downgrade(current entry).
new_child(h, e, fname) == HistoryTreeEntry(fname, e)

push_child_skip(h, e, c) == h

push_child_replace(h, e, c) == [RcClone(h, c) EXCEPT ![e].children = <<c>>]

push_child_front(h, e, c) == [RcClone(h, c) EXCEPT ![e].children = <<c>> \o @]

\* current_entry.children.push(Rc::clone(&child))
push_child(h, e, c) == [RcClone(h, c) EXCEPT ![e].children = Append(@, c)]

visit_new_records_child(fname) ==
    LET e == current_entry
        c == Len(heap) + 1
        h1 == Append(RcDowngrade(heap, e), new_child(heap, e, fname))
        h2 == push_child(h1, e, c)
        h3 == [RcDowngrade(h2, c) EXCEPT ![e].last_visited_child = c]
    IN /\ Len(heap) < MaxNodes
       /\ heap' = RcDrop(h3, e)
       /\ current_entry' = c
       /\ UNCHANGED <<root, panicked>>
       /\ last' = [op |-> "visit", fname |-> fname, from |-> e, branch |-> "new"]

visit_new_stay(fname) ==
    LET e == current_entry
        c == Len(heap) + 1
        h1 == Append(RcDowngrade(heap, e), new_child(heap, e, fname))
        h2 == push_child(h1, e, c)
    IN /\ Len(heap) < MaxNodes
       /\ heap' = RcDrop(h2, c)
       /\ current_entry' = e
       /\ UNCHANGED <<root, panicked>>
       /\ last' = [op |-> "visit", fname |-> fname, from |-> e, branch |-> "new"]

\* The new-child branch.
visit_new(fname) ==
    LET e == current_entry
        c == Len(heap) + 1
        h1 == Append(RcDowngrade(heap, e), new_child(heap, e, fname))
        h2 == push_child(h1, e, c)
        h3 == RcDrop(h2, e)                    \* the old RefCell is dropped by the assignment
    IN /\ Len(heap) < MaxNodes
       /\ heap' = h3
       /\ current_entry' = c
       /\ UNCHANGED <<root, panicked>>
       /\ last' = [op |-> "visit", fname |-> fname, from |-> e, branch |-> "new"]

\* A panic unwinds out of the call with the state as the call left it; no further
\* call is made on the tree afterwards.
visit(fname) ==
    /\ ~panicked
    /\ LET child == matching_child(heap, current_entry, fname)
       IN IF child # None THEN visit_existing(fname, child) ELSE visit_new(fname)

maybe_parent_root(h, e) == IF h[e].parent = None THEN None ELSE 1

\* self.current_entry.borrow().parent.upgrade()
maybe_parent(h, e) == WeakUpgrade(h, h[e].parent)

go_up_unwrap ==
    /\ ~panicked
    /\ LET parent == maybe_parent(heap, current_entry)
       IN IF parent # None
          THEN /\ heap' = RcDrop(RcClone(heap, parent), current_entry)
               /\ current_entry' = parent
               /\ UNCHANGED <<root, panicked>>
          ELSE /\ panicked' = TRUE
               /\ UNCHANGED <<heap, root, current_entry>>
    /\ last' = [op |-> "go_up", fname |-> "", from |-> current_entry,
                branch |-> IF maybe_parent(heap, current_entry) # None THEN "parent" ELSE "root"]

go_up_keeps_old ==
    /\ ~panicked
    /\ LET parent == maybe_parent(heap, current_entry)
       IN IF parent # None
          THEN /\ heap' = RcClone(heap, parent)
               /\ current_entry' = parent
          ELSE UNCHANGED <<heap, current_entry>>
    /\ UNCHANGED <<root, panicked>>
    /\ last' = [op |-> "go_up", fname |-> "", from |-> current_entry,
                branch |-> IF maybe_parent(heap, current_entry) # None THEN "parent" ELSE "root"]

go_up ==
    /\ ~panicked
    /\ LET parent == maybe_parent(heap, current_entry)
       IN IF parent # None
          THEN LET h1 == RcClone(heap, parent)        \* upgrade() gives an Rc
                   h2 == RcClone(h1, parent)          \* Rc::clone(&parent) into the new RefCell
                   h3 == RcDrop(h2, current_entry)    \* the old RefCell is dropped
                   h4 == RcDrop(h3, parent)           \* the local `parent` goes out of scope
               IN /\ heap' = h4
                  /\ current_entry' = parent
          ELSE UNCHANGED <<heap, current_entry>>
    /\ UNCHANGED <<root, panicked>>
    /\ last' = [op |-> "go_up", fname |-> "", from |-> current_entry,
                branch |-> IF maybe_parent(heap, current_entry) # None THEN "parent" ELSE "root"]

Next ==
    \/ \E fname \in Names : visit(fname)
    \/ go_up

Spec == Init /\ [][Next]_vars

\* A caller that only ever descends, as test_history_tree_visit does.
NextVisitOnly == \E fname \in Names : visit(fname)

SpecVisitOnly == Init /\ [][NextVisitOnly]_vars

----------------------------------------------------------------------------
\* Shape of the tree, read off the heap alone.

TypeOK ==
    /\ Len(heap) \in 1..MaxNodes
    /\ \A n \in Nodes(heap) :
         /\ heap[n].name \in Names
         /\ heap[n].parent \in {None} \cup Nodes(heap)
         /\ heap[n].last_visited_child \in {None} \cup Nodes(heap)
         /\ \A i \in 1..Len(heap[n].children) : heap[n].children[i] \in Nodes(heap)
         /\ heap[n].strong \in Nat /\ heap[n].weak \in Nat
    /\ root \in Nodes(heap)
    /\ current_entry \in Nodes(heap)
    /\ panicked \in BOOLEAN

StrongPositive == \A n \in Nodes(heap) : heap[n].strong >= 1

ChildSet(h, e) == {h[e].children[i] : i \in 1..Len(h[e].children)}

\* The children of e named fname.
ChildrenNamed(h, e, fname) == {c \in ChildSet(h, e) : h[c].name = fname}

\* The positions at which c occurs in e's child sequence.
Occurrences(h, e, c) == {i \in 1..Len(h[e].children) : h[e].children[i] = c}

\* The nodes that hold c in their child collection.
Holders(h, c) == {p \in Nodes(h) : c \in ChildSet(h, p)}

RECURSIVE ParentChainF(_, _, _)
ParentChainF(h, n, fuel) ==
    IF n = None \/ fuel = 0 THEN <<>>
    ELSE <<n>> \o ParentChainF(h, WeakUpgrade(h, h[n].parent), fuel - 1)

\* n, its parent, its grandparent, ... as far as the parent references resolve.
ParentChain(h, n) == ParentChainF(h, n, Len(h) + 1)

RECURSIVE ReachF(_, _, _)
ReachF(h, S, fuel) ==
    LET T == S \cup UNION {ChildSet(h, n) : n \in S}
    IN IF fuel = 0 \/ T = S THEN S ELSE ReachF(h, T, fuel - 1)

\* The nodes reachable from n through child collections.
Reachable(h, n) == ReachF(h, {n}, Len(h))

----------------------------------------------------------------------------
\* What the call just made was, read off `last` and the state it started from.

\* This step is a call visit(fname).
VisitStep(fname) == last'.op = "visit" /\ last'.fname = fname

\* This step is a call go_up().
GoUpStep == last'.op = "go_up"

\* This step is a visit of a name that already is a child of the current entry.
RevisitStep(fname) == VisitStep(fname) /\ ChildrenNamed(heap, current_entry, fname) # {}

----------------------------------------------------------------------------
\* C1: visit(name) is total: whatever the state and the name (a name that already
\* is a child of the current entry included), the call returns normally; it
\* never panics.
C1_VisitNeverPanics == last.op = "visit" => ~panicked

\* C2: a visit of a name n that already is a child of the current entry E ends
\* with the cursor on that child of E, creates no node and leaves E's child
\* sequence as it was.
C2_RevisitReusesNode ==
    [][\A n \in Names : RevisitStep(n) =>
          /\ current_entry' \in ChildrenNamed(heap, current_entry, n)
          /\ Len(heap') = Len(heap)
          /\ heap'[current_entry].children = heap[current_entry].children]_vars

\* visit("foo"), go_up(), visit("foo") on a fresh tree: the cursor is on the single
\* child of the root.
C2_Witness ==
    /\ last.op = "visit" /\ last.branch = "existing" /\ last.fname = "foo"
    /\ last.from = root
    /\ Len(heap) = 2
    /\ heap[root].children = <<current_entry>>
    /\ heap[current_entry].name = "foo"

\* C3 (P1): after visit(n), from any reachable state, the current entry's name is n.
C3_NameAfterVisit == last.op = "visit" => heap[current_entry].name = last.fname

\* visit("foo"), visit("bar"): the cursor is on "bar", two levels below the root.
C3_Witness ==
    /\ last.op = "visit" /\ last.fname = "bar"
    /\ heap[current_entry].name = "bar"
    /\ Len(ParentChain(heap, current_entry)) = 3

\* C4 (P2): after visit(n) from the entry E, the parent reference of the new
\* current entry resolves to E, and the parent references followed from the cursor
\* give the new entry and then the chain that led from E up to the root.
C4_ParentLinkage ==
    [][\A n \in Names : VisitStep(n) =>
          /\ WeakUpgrade(heap', heap'[current_entry'].parent) = current_entry
          /\ ParentChain(heap', current_entry')
               = <<current_entry'>> \o ParentChain(heap, current_entry)
          /\ ParentChain(heap', current_entry')[Len(ParentChain(heap', current_entry'))]
               = root]_vars

\* A visit made two levels below the root: the chain from the cursor has four entries.
C4_Witness ==
    /\ last.op = "visit"
    /\ heap[current_entry].parent = last.from
    /\ Len(ParentChain(heap, current_entry)) = 4
    /\ ParentChain(heap, current_entry)[4] = root

\* C5 (P4): when the current entry E is not the root, one go_up() moves the cursor
\* to the node that holds E in its children, and E stays a child of that node.
C5_GoUpToParent ==
    [][(GoUpStep /\ current_entry # root) =>
          /\ Holders(heap, current_entry) = {current_entry'}
          /\ current_entry \in ChildSet(heap', current_entry')]_vars

\* go_up() from an entry two levels below the root: the cursor is on its parent,
\* which is not the root.
C5_Witness ==
    /\ last.op = "go_up" /\ last.from # root
    /\ current_entry # root
    /\ last.from \in ChildSet(heap, current_entry)

\* C6 (P5): at the root, go_up() returns normally and changes nothing: the cursor
\* stays on the root and no node, name, parent link, child sequence or count changes.
C6_RootFloor ==
    [][(GoUpStep /\ current_entry = root) =>
          /\ current_entry' = root
          /\ root' = root
          /\ heap' = heap
          /\ ~panicked']_vars

\* go_up() called at the root of a tree that has grown to three entries.
C6_Witness ==
    /\ last.op = "go_up" /\ last.from = root
    /\ current_entry = root
    /\ ~panicked
    /\ Len(heap) >= 3

\* No entry has two children of one name.
NoDuplicateSiblings ==
    \A e \in Nodes(heap) : \A i, j \in 1..Len(heap[e].children) :
        heap[heap[e].children[i]].name = heap[heap[e].children[j]].name => i = j

\* C7 (P3): no entry ever has two children of one name, and a visit of a name that
\* already is a child of the current entry does not add a child to it.
C7_SiblingNamesUnique ==
    /\ []NoDuplicateSiblings
    /\ [][\A n \in Names : RevisitStep(n) =>
             Len(heap'[current_entry].children) <= Len(heap[current_entry].children)]_vars

\* A revisit of one of two siblings.
C7_Witness ==
    /\ last.op = "visit" /\ last.branch = "existing"
    /\ Len(heap[last.from].children) = 2
    /\ current_entry = heap[last.from].children[1]

\* C8 (P6) as claimed: every non-root entry has exactly one strong reference.
C8_OneStrongReference == \A n \in Nodes(heap) \ {root} : heap[n].strong = 1

\* C8 as amended: a non-root entry occurs once in one child collection, and its
\* strong count is that one reference, plus one while it is the current entry:
\* the cursor owns; the parent and last-visited-child links do not.
C8_StrongIsOwnerPlusCursor ==
    \A n \in Nodes(heap) \ {root} :
        /\ Cardinality(Holders(heap, n)) = 1
        /\ \A p \in Holders(heap, n) : Cardinality(Occurrences(heap, p, n)) = 1
        /\ heap[n].strong = 1 + (IF n = current_entry THEN 1 ELSE 0)

\* The cursor has come back up to an entry that children point to: it has two
\* strong references, and the child left has one.
C8_Witness ==
    /\ last.op = "go_up"
    /\ current_entry # root
    /\ heap[current_entry].strong = 2
    /\ heap[last.from].parent = current_entry
    /\ heap[last.from].strong = 1

\* C9: the current entry is the root or is reachable from it through the child
\* collections, and every entry allocated is in its parent's children by the end
\* of the call that made it.
C9_CursorInTree ==
    /\ current_entry \in Reachable(heap, root)
    /\ \A n \in Nodes(heap) \ {root} :
         heap[n].parent # None /\ n \in ChildSet(heap, heap[n].parent)

\* The cursor on an entry just made, two levels below the root.
C9_Witness ==
    /\ last.op = "visit" /\ last.branch = "new"
    /\ current_entry = Len(heap)
    /\ Len(ParentChain(heap, current_entry)) = 3

\* C10: when visit(n) finds the child C of the current entry E, afterwards
\* E.last_visited_child is C and no other entry's last_visited_child has changed.
C10_LastVisitedChildRecorded ==
    [][\A n \in Names : RevisitStep(n) =>
          /\ heap'[current_entry].last_visited_child
               \in ChildrenNamed(heap, current_entry, n)
          /\ \A m \in Nodes(heap) \ {current_entry} :
               heap'[m].last_visited_child = heap[m].last_visited_child]_vars

\* C11: a non-root entry has two strong references while it is the current entry
\* (its parent's children and the cursor) and one otherwise, and go_up() from a
\* non-root entry takes the count of the entry left from 2 down to 1.
C11_StrongCountAccounting ==
    /\ [](\A n \in Nodes(heap) \ {root} :
            heap[n].strong = IF n = current_entry THEN 2 ELSE 1)
    /\ [][(GoUpStep /\ current_entry # root) =>
             /\ heap[current_entry].strong = 2
             /\ heap'[current_entry].strong = 1]_vars

\* visit("foo"), visit("bar"), go_up(), go_up(): "bar" is back to one strong
\* reference and the cursor is on the root.
C11_Witness ==
    /\ last.op = "go_up" /\ last.from # root
    /\ current_entry = root
    /\ Len(heap) = 3
    /\ heap[3].parent = 2
    /\ heap[2].strong = 1 /\ heap[3].strong = 1

\* C12: the weak count of every entry is the number of its children (one parent
\* link each); a visit of a new name from E raises E's weak count by one, and
\* go_up() changes no weak count.
C12_WeakCountAccounting ==
    /\ [](\A n \in Nodes(heap) : heap[n].weak = Len(heap[n].children))
    /\ [][\A f \in Names :
            (VisitStep(f) /\ ChildrenNamed(heap, current_entry, f) = {}) =>
                heap'[current_entry].weak = heap[current_entry].weak + 1]_vars
    /\ [][GoUpStep => \A n \in Nodes(heap) : heap'[n].weak = heap[n].weak]_vars

\* visit("foo"), visit("bar"), go_up(), go_up(), visit of a third name: the root
\* has two weak references, one per child.
C12_Witness ==
    /\ last.op = "visit" /\ last.from = root
    /\ heap[root].weak = 2
    /\ Len(heap[root].children) = 2
    /\ Len(heap) = 4

\* The entry n as the tree shows it: its name, its links and its children, the
\* reference counts aside.
Entry(h, n) ==
    [name |-> h[n].name, parent |-> h[n].parent,
     last_visited_child |-> h[n].last_visited_child, children |-> h[n].children]

\* s is an initial part of t.
IsPrefix(s, t) == Len(s) <= Len(t) /\ \A i \in 1..Len(s) : s[i] = t[i]

\* C13: the tree only grows.  No call removes, renames or re-parents an entry or
\* takes a child away, and the root slot is never replaced; go_up() changes
\* nothing but the cursor; a visit of a name that is not a child of the current
\* entry E adds exactly one entry (that name, no children, parent E) and changes
\* the children of no entry other than E.
C13_TreeOnlyGrows ==
    [][/\ root' = root
       /\ Len(heap') >= Len(heap)
       /\ \A n \in Nodes(heap) :
            /\ heap'[n].name = heap[n].name
            /\ heap'[n].parent = heap[n].parent
            /\ ChildSet(heap, n) \subseteq ChildSet(heap', n)
       /\ GoUpStep =>
            /\ Len(heap') = Len(heap)
            /\ \A n \in Nodes(heap) : Entry(heap', n) = Entry(heap, n)
       /\ \A f \in Names :
            (VisitStep(f) /\ ChildrenNamed(heap, current_entry, f) = {}) =>
               /\ Len(heap') = Len(heap) + 1
               /\ Entry(heap', Len(heap')) =
                    [name |-> f, parent |-> current_entry,
                     last_visited_child |-> None, children |-> <<>>]
               /\ ChildSet(heap', current_entry)
                    = ChildSet(heap, current_entry) \cup {Len(heap')}
               /\ \A n \in Nodes(heap) \ {current_entry} :
                    heap'[n].children = heap[n].children]_vars

\* A second child has just been added to an entry below the root, next to the
\* first one.
C13_Witness ==
    /\ last.op = "visit" /\ last.branch = "new"
    /\ last.from # root
    /\ Len(heap[last.from].children) = 2
    /\ current_entry = Len(heap)

\* C14: the root's parent reference is empty; every other entry's parent
\* reference resolves to a live entry that holds it exactly once in its children,
\* no other entry holds it, and the parent references followed from any entry
\* end at the root.
C14_WellFormed ==
    /\ heap[root].parent = None
    /\ \A n \in Nodes(heap) \ {root} :
         LET p == WeakUpgrade(heap, heap[n].parent)
         IN /\ p # None
            /\ Holders(heap, n) = {p}
            /\ Cardinality(Occurrences(heap, p, n)) = 1
    /\ \A n \in Nodes(heap) :
         LET chain == ParentChain(heap, n)
         IN /\ Len(chain) <= Len(heap)
            /\ chain[Len(chain)] = root

\* A tree with a branching: the root with two children, one of which has a child.
C14_Witness ==
    /\ Len(heap[root].children) = 2
    /\ \E n \in Nodes(heap) : Len(ParentChain(heap, n)) = 3

\* C15: children keep their insertion order.  The child sequence of every entry
\* only ever grows at its end, so the index of a child never changes, and a new
\* child is the last element of the sequence of the entry it was visited from.
C15_StableInsertionOrder ==
    [][/\ \A n \in Nodes(heap) : IsPrefix(heap[n].children, heap'[n].children)
       /\ \A f \in Names :
            (VisitStep(f) /\ ChildrenNamed(heap, current_entry, f) = {}) =>
                heap'[current_entry].children
                    = Append(heap[current_entry].children, current_entry')]_vars

\* The root has two children; the first name visited is still at index 1 after the
\* second was added and the cursor came back up.
C15_Witness ==
    /\ last.op = "go_up" /\ current_entry = root
    /\ Len(heap[root].children) = 2
    /\ heap[root].children[1] = 2
    /\ heap[root].children[1] < heap[root].children[2]

\* C16: last_visited_child is None on every entry in every reachable state: the
\* new-child branch builds the entry with None, and the existing-child branch never
\* gets the exclusive access it needs to set it.
C16_LastVisitedChildNeverSet ==
    \A n \in Nodes(heap) : heap[n].last_visited_child = None

\* A revisit has been made, from an entry that has children pointing to it and an
\* owner besides the handle the call holds.
C16_Witness ==
    /\ last.op = "visit" /\ last.branch = "existing"
    /\ heap[last.from].weak >= 1
    /\ heap[last.from].strong >= 1
    /\ current_entry \in ChildSet(heap, last.from)

\* Every entry has at most one child, the last one allocated has none and is the
\* current entry, and the parent references from it pass through every entry.
IsChainToCursor ==
    /\ current_entry = Len(heap)
    /\ heap[current_entry].children = <<>>
    /\ \A n \in Nodes(heap) : Len(heap[n].children) <= 1
    /\ Len(ParentChain(heap, current_entry)) = Len(heap)

\* C17: when only visit is called on a fresh tree, every call takes the new-child
\* branch and adds one entry, none panics, and the tree is a single chain with
\* the cursor at its leaf (k visits: k + 1 entries).
C17_VisitOnlyBuildsChain ==
    /\ [](IsChainToCursor /\ ~panicked /\ last.branch # "existing")
    /\ [][Len(heap') = Len(heap) + 1
            /\ ChildrenNamed(heap, current_entry, last'.fname) = {}]_vars

\* Three visits of the same name in a row: a chain of four entries.
C17_Witness ==
    /\ Len(heap) = 4
    /\ current_entry = 4
    /\ \A n \in 2..4 : heap[n].name = "foo" /\ heap[n].parent = n - 1

\* C18: a visit that panics leaves the tree as it was: the cursor is not moved to
\* the matching child unless the update of last_visited_child succeeds too.
C18_FailedVisitChangesNothing ==
    [][\A f \in Names : (VisitStep(f) /\ panicked') =>
          /\ current_entry' = current_entry
          /\ heap' = heap]_vars

====
